---- MODULE Spec2Model ----
(***************************************************************************)
(* Model of the video quiz screenshot generator (src/unnamed/part_000):    *)
(* the React component state, the hidden <video> element it drives, the    *)
(* readiness wait, the per-timestamp capture job and the batch loop of     *)
(* generateScreenshots.                                                    *)
(*                                                                         *)
(* Scheduling: JavaScript runs one task at a time.  One action of this     *)
(* module is one task (a DOM event, a timer callback, a toBlob callback)   *)
(* together with every promise continuation (microtask) it triggers, up to *)
(* the next point where the code awaits a timer or an event.               *)
(*                                                                         *)
(* Job indices are 1-based here: job i of the model is loop index i-1 of   *)
(* the code.                                                               *)
(***************************************************************************)
EXTENDS Integers, Sequences, FiniteSets, TLC

(* ------------------------------ bounds --------------------------------- *)

\* longest list of question entries an uploaded subtitle file yields
MaxEntries == 2
\* number of batch runs started in one behaviour
MaxRuns == 2
\* number of files (video or subtitle) chosen in one behaviour: two set a
\* run up; a third one replaces a file between or during runs
MaxUploads == 2

\* timeInSeconds values of the entries (seconds)
Times == {1, 5}
\* files chosen where the results section is looked at: two set a run up, a
\* third replaces a file while results are on display
MaxChoices == 3
\* exports (clicks on Download All or Download Selected) looked at
MaxExports == 1
\* durations a loaded video may report (seconds)
Durations == {3}
\* videoWidth a loaded video may report (0: a file with no video track)
Widths == {0, 1}

(* --------------------------- the state ---------------------------------- *)

VARIABLES
    \* React state of the component
    videoFile, videoUrl, srtEntries, screenshots, isProcessing,
    processingProgress, selectedScreenshots, errors, videoLoaded,
    \* generateScreenshots: where the async function is suspended, its closure
    pc, runId, runEntries, idx, newScreenshots,
    \* waitForVideoReady: its three listeners and its 10 s timers
    readyListeners, readyTimers,
    \* captureScreenshot: per job of the current run
    jobState, isResolved, hooks, canvasWidth,
    \* the browser's object URLs: those that are valid (created and not
    \* revoked), and, as history, the kinds of URL ("video", "shot") for
    \* which revokeObjectURL was called again when no longer valid
    objectUrls,
    \* the <video> element
    readyState, duration, videoWidth, currentTime, vidSeek, seekedPending,
    \* history of the current run (observations, never read by the program)
    \* attempted: the jobs begun, in order; lastDur, lastErr: video.duration as
    \* the job begun last read it, and the cause of that job's rejection
    attempted, lastDur, lastErr, seekRequested, seekOverlapped, readyAt,
    runEnd, uploads,
    \* lastDisturbed: the latest run during which a file was chosen (0: none)
    lastDisturbed,
    \* the naming of two results of one run: inputs and the names built
    naming,
    \* the parsing of one subtitle file: the file and the entries parsed
    parsing,
    \* the quiz player (script.js): its globals, the <video>'s position and
    \* paused flag, the stored preference, and two observations
    player,
    \* the libraryStatus state, and where the mount effect's checkLibraries
    \* is suspended
    libraryStatus, libraryCheck,
    \* the exports started, one slot each: the closure of
    \* downloadAllScreenshots / downloadSelectedScreenshots, the JSZip object,
    \* the timers of the fallback, and what each single download came to
    exports

reactVars == <<errors, screenshots, isProcessing, processingProgress,
               objectUrls>>
loopVars  == <<idx, newScreenshots>>
jobVars   == <<jobState, isResolved, attempted, lastDur, lastErr,
               seekRequested, seekOverlapped>>
vidMeta   == <<readyState, duration, videoWidth>>
vidPos    == <<currentTime, vidSeek>>
waitVars  == <<readyListeners, readyTimers>>
fileVars  == <<videoFile, videoUrl, srtEntries, videoLoaded, uploads,
               lastDisturbed>>
runVars   == <<runId, selectedScreenshots>>
closVars  == <<runEntries, readyAt>>
\* what the capture pipeline never touches
uiVars    == <<libraryStatus, libraryCheck, exports>>
sideVars  == <<naming, uiVars, parsing, player>>

vars == <<reactVars, pc, loopVars, jobVars, vidMeta, vidPos, waitVars,
          fileVars, runVars, closVars, hooks, canvasWidth, seekedPending,
          runEnd, sideVars>>

(* ------------------------- values and helpers --------------------------- *)

\* video.duration before the metadata is known
NaN == -1

\* no seek outstanding / no seeked event queued
NoSeek == [run |-> 0, job |-> 0]

\* readiness not (yet) confirmed in this run
NotConfirmed == [duration |-> NaN, videoWidth |-> -1]

\* the raw timestamp line of the subtitle block whose start time is t
RawLine(t) == 100 + t

Entry(t) == [timestamp |-> RawLine(t), timeInSeconds |-> t]

RECURSIVE SeqsUpTo(_, _)
SeqsUpTo(S, n) ==
    IF n = 0 THEN {<<>>}
    ELSE LET shorter == SeqsUpTo(S, n - 1)
         IN shorter \cup {Append(q, x) : q \in shorter, x \in S}

\* the entry lists an uploaded subtitle file may parse to
EntryLists == SeqsUpTo({Entry(t) : t \in Times}, MaxEntries)

\* the strings pushed to the errors state, by kind
Err(kind, ts, k, n) == [kind |-> kind, ts |-> ts, k |-> k, n |-> n]
JobError(ts)      == Err("capture", ts, 0, 0)
NoneCaptured      == Err("none captured", 0, 0, 0)
PartialCapture(k, n) == Err("partial", 0, k, n)
Fatal(msg)        == Err(msg, 0, 0, 0)

\* a progress value: the rational num/den (a percentage in the code)
Ratio(num, den) == [num |-> num, den |-> den]
RatioLeq(a, b) == a.num * b.den <= b.num * a.den
RatioEq(a, b)  == a.num * b.den = b.num * a.den

\* an export slot not in use
NoExport == [pc |-> "idle", kind |-> "none", shown |-> <<>>, sel |-> {},
             scope |-> <<>>, got |-> FALSE, zip |-> {}, added |-> 0,
             thrown |-> "none", timers |-> <<>>, fired |-> {},
             outcomes |-> <<>>]

\* object URLs: of the n-th file chosen, of the image of job i of run r
VideoObjectUrl(n) == [kind |-> "video", run |-> 0, n |-> n]
ShotUrl(r, i) == [kind |-> "shot", run |-> r, n |-> i]

\* URL.createObjectURL
CreateUrl(urls, u) == [urls EXCEPT !.valid = @ \cup {u}]

\* URL.revokeObjectURL for every URL of U; for a URL that is not valid the
\* call does nothing
RevokeUrls(urls, U) ==
    [valid |-> urls.valid \ U,
     again |-> urls.again \cup {u.kind : u \in U \ urls.valid}]

\* the cleanup of the effect on [screenshots, videoUrl], run when one of the
\* two has changed: the URLs of the screenshots and of the video as the
\* render before the change had them
EffectCleanup(urls, shots, vurl) ==
    RevokeUrls(urls, {shots[k].url : k \in DOMAIN shots}
                     \cup (IF vurl # 0 THEN {VideoObjectUrl(vurl)} ELSE {}))

Cur == [errors |-> errors, screenshots |-> screenshots,
        isProcessing |-> isProcessing,
        processingProgress |-> processingProgress,
        objectUrls |-> objectUrls]

CurJobs == [state |-> jobState, err |-> lastErr, resolved |-> isResolved,
            attempted |-> attempted, lastDur |-> lastDur,
            seekRequested |-> seekRequested,
            seekOverlapped |-> seekOverlapped]

CurVideo == [readyState |-> readyState, duration |-> duration]

SetReact(s) ==
    /\ errors' = s.errors
    /\ screenshots' = s.screenshots
    /\ isProcessing' = s.isProcessing
    /\ processingProgress' = s.processingProgress
    /\ objectUrls' = s.objectUrls

SetJobs(j) ==
    /\ jobState' = j.state
    /\ lastErr' = j.err
    /\ isResolved' = j.resolved
    /\ attempted' = j.attempted
    /\ lastDur' = j.lastDur
    /\ seekRequested' = j.seekRequested
    /\ seekOverlapped' = j.seekOverlapped

NoJobs == [state |-> <<>>, err |-> "none", resolved |-> {},
           attempted |-> <<>>, lastDur |-> NaN, seekRequested |-> {},
           seekOverlapped |-> {}]

\* a task that is no part of a run: generateScreenshots stays where it is.
\* The locals of a run that has ended are dropped with the first such task.
Rest ==
    /\ runEnd' = "none"
    /\ UNCHANGED pc
    /\ IF runEnd = "none"
       THEN UNCHANGED <<loopVars, jobVars, closVars>>
       ELSE /\ idx' = 0
            /\ newScreenshots' = <<>>
            /\ runEntries' = <<>>
            /\ readyAt' = NotConfirmed
            /\ SetJobs(NoJobs)

\* generateScreenshots continues: suspended at pcv with loop index i
Orch(pcv, i, shots, s, end) ==
    /\ pc' = pcv
    /\ idx' = i
    /\ newScreenshots' = shots
    /\ runEnd' = end
    /\ SetReact(s)

(* ---------------------- the naming of the results ----------------------- *)

\* Strings are sequences of characters.  Times are in milliseconds here.

\* loop indices (0-based) of the two results
Indices == {0, 1, 9, 99, 998, 999, 1000}
\* the times of their entries, in milliseconds
TimesMs == {0, 1001, 3723004}
\* the values Date.now() returns
ClockValues == {1, 10, 101}
\* Math.floor((seconds % 1) * 1000) computes in binary floating point and
\* may come out one below the millisecond count
Losses == {0, 1}

DigitChar(d) == <<"0", "1", "2", "3", "4", "5", "6", "7", "8", "9">>[d + 1]

\* Number.prototype.toString() of a natural number
RECURSIVE toString(_)
toString(n) ==
    IF n < 10 THEN <<DigitChar(n)>>
    ELSE Append(toString(n \div 10), DigitChar(n % 10))

\* (variant: the number cut to its last `len` digits)
RECURSIVE padStart_Cut(_, _, _)
padStart_Cut(str, len, ch) ==
    IF Len(str) > len THEN SubSeq(str, Len(str) - len + 1, Len(str))
    ELSE IF Len(str) = len THEN str
    ELSE padStart_Cut(<<ch>> \o str, len, ch)

\* String.prototype.padStart: a longer string is returned as it is
RECURSIVE padStart(_, _, _)
padStart(str, len, ch) ==
    IF Len(str) >= len THEN str ELSE padStart(<<ch>> \o str, len, ch)

\* formatTimestamp(ms / 1000); loss: what the floating point computation of
\* the millisecond field loses
formatTimestamp(ms, loss) ==
    LET hours   == ms \div 3600000
        minutes == (ms % 3600000) \div 60000
        secs    == (ms % 60000) \div 1000
        frac    == IF ms % 1000 >= loss THEN (ms % 1000) - loss ELSE 0
    IN padStart(toString(hours), 2, "0") \o <<":">>
       \o padStart(toString(minutes), 2, "0") \o <<":">>
       \o padStart(toString(secs), 2, "0") \o <<",">>
       \o padStart(toString(frac), 3, "0")

\* str.replace(/:/g, '-')
ReplaceColons(str) ==
    [k \in 1..Len(str) |-> IF str[k] = ":" THEN "-" ELSE str[k]]

\* `screenshot_${(index + 1).toString().padStart(3, '0')}_${...}.png`
Filename(index, ms, loss) ==
    <<"screenshot", "_">> \o padStart(toString(index + 1), 3, "0")
    \o <<"_">> \o ReplaceColons(formatTimestamp(ms, loss)) \o <<".png">>

\* (variant: the id is the clock value alone)
ShotId_ClockOnly(now, index) == toString(now)

\* `${Date.now()}_${index}`
ShotId(now, index) == toString(now) \o <<"_">> \o toString(index)

(* ------------------------------ parseSRT -------------------------------- *)

\* subtitle blocks a document is made of (a document of MaxBlocks blocks)
MaxBlocks == 2

\* the text of a block that asks nothing
AnswerText == << <<"a", "n", "s", "w", "e", "r">> >>

\* the timestamp line of a block as a subtitle file writes it: with three
\* fields and a comma, with three fields and a dot, with two fields
\* (minutes and seconds), or not at all; the range ends one second later
StampLine(form, t) ==
    LET two(n) == padStart(toString(n), 2, "0")
        hms(sec, sep) == two(t.h) \o <<":">> \o two(t.m) \o <<":">>
                         \o two(sec) \o <<sep>>
                         \o padStart(toString(t.ms), 3, "0")
        ms(sec) == two(t.m) \o <<":">> \o two(sec) \o <<",">>
                   \o padStart(toString(t.ms), 3, "0")
        arrow == <<" ", "-", "-", ">", " ">>
    IN CASE form = "comma"   -> << hms(t.s, ",") \o arrow \o hms(t.s + 1, ",") >>
         [] form = "dot"     -> << hms(t.s, ".") \o arrow \o hms(t.s + 1, ".") >>
         [] form = "compact" -> << ms(t.s) \o arrow \o ms(t.s + 1) >>
         [] OTHER            -> << >>

\* the blocks of a subtitle file: a lead line (the block's number, or a line
\* of text with the word question), a timestamp line with one of two start
\* times, the text (an answer, a question, a question in capitals on the
\* second of two lines)
BlockShapes ==
    LET StartTimes == {[h |-> 0, m |-> 0, s |-> 1, ms |-> 0],
                       [h |-> 1, m |-> 2, s |-> 3, ms |-> 45]}
        Texts == {AnswerText,
                  << <<"Q", "u", "e", "s", "t", "i", "o", "n", " ", "1">> >>,
                  << <<"i", "s", " ", "i", "t">>,
                     <<"a", " ", "Q", "U", "E", "S", "T", "I", "O", "N">> >>}
    IN [lead : {<<"7">>}, form : {"comma", "dot", "compact", "none"},
        start : StartTimes, text : Texts]
       \cup [lead : {<<>>, <<"q", "u", "e", "s", "t", "i", "o", "n">>},
             form : {"comma"}, start : StartTimes, text : {AnswerText}]

\* how a file ends its lines and parts its blocks: LF and an empty line,
\* LF and two empty lines, CR LF and an empty line, LF and a line that
\* holds a space
LineEnds == {[eol |-> <<"LF">>, gap |-> <<"LF", "LF">>],
             [eol |-> <<"LF">>, gap |-> <<"LF", "LF", "LF">>],
             [eol |-> <<"CR", "LF">>, gap |-> <<"CR", "LF", "CR", "LF">>],
             [eol |-> <<"LF">>, gap |-> <<"LF", " ", "LF">>]}

\* Array.prototype.join
RECURSIVE join(_, _)
join(parts, sep) ==
    IF Len(parts) = 0 THEN <<>>
    ELSE IF Len(parts) = 1 THEN parts[1]
    ELSE parts[1] \o sep \o join(Tail(parts), sep)

\* the text of the file with the blocks bs
Content(bs, ends) ==
    join([k \in DOMAIN bs |->
             join((IF bs[k].lead = <<>> THEN <<>> ELSE <<bs[k].lead>>)
                  \o StampLine(bs[k].form, bs[k].start) \o bs[k].text,
                  ends.eol)],
         ends.gap)

\* String.prototype.indexOf, 1-based (0: not found)
indexOf(str, sub) ==
    LET at == {p \in 1..(Len(str) - Len(sub) + 1) :
                  SubSeq(str, p, p + Len(sub) - 1) = sub}
    IN IF at = {} THEN 0 ELSE CHOOSE p \in at : \A q \in at : p <= q

\* String.prototype.split with a string separator
RECURSIVE split(_, _)
split(str, sep) ==
    LET p == indexOf(str, sep)
    IN IF p = 0 THEN <<str>>
       ELSE <<SubSeq(str, 1, p - 1)>>
            \o split(SubSeq(str, p + Len(sep), Len(str)), sep)

\* String.prototype.trim
trim(str) ==
    LET inked == {p \in DOMAIN str : str[p] \notin {" ", "LF", "CR"}}
    IN IF inked = {} THEN <<>>
       ELSE SubSeq(str, CHOOSE p \in inked : \A q \in inked : p <= q,
                        CHOOSE p \in inked : \A q \in inked : p >= q)

\* String.prototype.toLowerCase
toLowerCase(str) ==
    LET lower == [c \in {"Q", "U", "E", "S", "T", "I", "O", "N"} |->
                     CASE c = "Q" -> "q" [] c = "U" -> "u" [] c = "E" -> "e"
                       [] c = "S" -> "s" [] c = "T" -> "t" [] c = "I" -> "i"
                       [] c = "O" -> "o" [] c = "N" -> "n"]
    IN [k \in DOMAIN str |->
           IF str[k] \in DOMAIN lower THEN lower[str[k]] ELSE str[k]]

\* parseInt: the number written by the digits a string begins with (the
\* strings parsed here begin with a digit)
RECURSIVE parseInt(_)
parseInt(str) ==
    LET other == {p \in DOMAIN str :
                     str[p] \notin {DigitChar(d) : d \in 0..9}}
        digits == IF other = {} THEN str
                  ELSE SubSeq(str, 1,
                              (CHOOSE p \in other : \A q \in other : p <= q)
                              - 1)
    IN IF Len(digits) = 0 THEN 0
       ELSE parseInt(SubSeq(digits, 1, Len(digits) - 1)) * 10
            + (CHOOSE d \in 0..9 : DigitChar(d) = digits[Len(digits)])

\* line.match(/\d{2}:\d{2}:\d{2}[,\.]\d{3}/): the index of the first match
\* (0: no match)
TimestampMatch(line) ==
    LET digit(p) == line[p] \in {DigitChar(d) : d \in 0..9}
        here(p) == /\ p + 11 <= Len(line)
                   /\ \A k \in {0, 1, 3, 4, 6, 7, 9, 10, 11} : digit(p + k)
                   /\ line[p + 2] = ":"
                   /\ line[p + 5] = ":"
                   /\ line[p + 8] \in {",", "."}
        at == {p \in DOMAIN line : here(p)}
    IN IF at = {} THEN 0 ELSE CHOOSE p \in at : \A q \in at : p <= q

\* (variant: the time of the range's end, the last match of the line)
TimeOfMatch_End(line, p) ==
    LET q == Len(line) - 11
    IN parseInt(SubSeq(line, q, q + 1)) * 3600000
       + parseInt(SubSeq(line, q + 3, q + 4)) * 60000
       + parseInt(SubSeq(line, q + 6, q + 7)) * 1000
       + parseInt(SubSeq(line, q + 9, q + 11))

\* hours * 3600 + minutes * 60 + seconds + milliseconds / 1000 of the match
\* at p, in milliseconds
TimeOfMatch(line, p) ==
    parseInt(SubSeq(line, p, p + 1)) * 3600000
    + parseInt(SubSeq(line, p + 3, p + 4)) * 60000
    + parseInt(SubSeq(line, p + 6, p + 7)) * 1000
    + parseInt(SubSeq(line, p + 9, p + 11))

\* the body of blocks.forEach: the entries (none or one) pushed for a block
ParsedBlock(block) ==
    LET lines == SelectSeq(split(trim(block), <<"LF">>),
                           LAMBDA line : trim(line) # <<>>)
        found == {i \in DOMAIN lines : TimestampMatch(trim(lines[i])) # 0}
    IN IF Len(lines) < 2 \/ found = {} THEN <<>>
       ELSE LET i == CHOOSE i \in found : \A j \in found : i <= j
                timestampLine == trim(lines[i])
                text == trim(join(SubSeq(lines, i + 1, Len(lines)), <<" ">>))
            IN << [timestamp |-> timestampLine,
                   timeInSeconds |->
                       TimeOfMatch(timestampLine,
                                   TimestampMatch(timestampLine)),
                   text |-> text,
                   isQuestion |->
                       indexOf(toLowerCase(text),
                               <<"q", "u", "e", "s", "t", "i", "o", "n">>)
                       # 0] >>

\* parseSRT: timeInSeconds is kept in milliseconds
parseSRT(content) ==
    LET blocks == split(SelectSeq(content, LAMBDA c : c # "CR"),
                        <<"LF", "LF">>)
        entries[k \in 0..Len(blocks)] ==
            IF k = 0 THEN <<>> ELSE entries[k - 1] \o ParsedBlock(blocks[k])
    IN SelectSeq(entries[Len(blocks)], LAMBDA entry : entry.isQuestion)

(* --------------------------- initial state ------------------------------ *)

Constructed ==
    /\ videoFile = FALSE
    /\ videoUrl = 0
    /\ srtEntries = <<>>
    /\ screenshots = <<>>
    /\ isProcessing = FALSE
    /\ processingProgress = Ratio(0, 1)
    /\ selectedScreenshots = {}
    /\ errors = <<>>
    /\ objectUrls = [valid |-> {}, again |-> {}]
    /\ videoLoaded = FALSE
    /\ pc = "idle"
    /\ runId = 0
    /\ runEntries = <<>>
    /\ idx = 0
    /\ newScreenshots = <<>>
    /\ readyListeners = 0
    /\ readyTimers = {}
    /\ jobState = <<>>
    /\ lastErr = "none"
    /\ isResolved = {}
    /\ hooks = [seeked |-> {}, error |-> {}, timer |-> {}]
    /\ canvasWidth = 0
    /\ readyState = 0
    /\ duration = NaN
    /\ videoWidth = 0
    /\ currentTime = 0
    /\ vidSeek = NoSeek
    /\ seekedPending = NoSeek
    /\ attempted = <<>>
    /\ lastDur = NaN
    /\ seekRequested = {}
    /\ seekOverlapped = {}
    /\ readyAt = NotConfirmed
    /\ runEnd = "none"
    /\ uploads = 0
    /\ lastDisturbed = 0
    /\ libraryStatus = [jszip |-> FALSE, filesaver |-> FALSE]
    /\ libraryCheck = "jszip"
    /\ exports = [e \in 1..MaxExports |-> NoExport]

\* no naming under study
NoNaming == [phase |-> "off"]

\* no subtitle file under study
NoParsing == [phase |-> "off"]

\* the quiz player is not looked at
NoPlayer == [phase |-> "off"]

Init ==
    /\ Constructed
    /\ naming = NoNaming
    /\ parsing = NoParsing
    /\ player = NoPlayer

(* ------------------- captureScreenshot: pure parts ---------------------- *)

\* (variant: the duration taken for milliseconds)
OutOfRange_Millis(t, d) == d # NaN /\ t > d * 1000

\* `timeInSeconds > video.duration`; every comparison with NaN is false
OutOfRange(t, d) == d # NaN /\ t > d

\* addEventListener('seeked'), addEventListener('error'), setTimeout(.., 5000)
AddHooks(h, i) ==
    [seeked |-> h.seeked \cup {i}, error |-> h.error \cup {i},
     timer |-> h.timer \cup {i}]

\* (variant: the error listener is left on the video)
cleanup_KeepsError(h, i) ==
    [seeked |-> h.seeked \ {i}, error |-> h.error, timer |-> h.timer \ {i}]

\* cleanup(): both listeners removed, the seek timer cleared
cleanup(h, i) ==
    [seeked |-> h.seeked \ {i}, error |-> h.error \ {i},
     timer |-> h.timer \ {i}]

\* the clock value the toBlob callbacks of the capture pipeline read (ids
\* under other clock values: NamingSpec)
Now == 1700

\* the Screenshot a job resolves with; its id, timestamp and filename are
\* functions of the index and the time and are computed where they are read
Shot(E, i) ==
    [index |-> i,
     timeInSeconds |-> E[i].timeInSeconds,
     url |-> ShotUrl(runId, i)]

IdOf(shot) == ShotId(Now, shot.index - 1)
TimestampOf(shot) == formatTimestamp(shot.timeInSeconds * 1000, 0)
FilenameOf(shot) == Filename(shot.index - 1, shot.timeInSeconds * 1000, 0)

(* ------------------- generateScreenshots: pure parts -------------------- *)

\* (variant: i / srtEntries.length, the attempt just made not counted)
ProgressAfter_Stale(i, n) == Ratio((i - 1) * 100, n)

\* setProcessingProgress(((i + 1) / srtEntries.length) * 100), i 0-based
ProgressAfter(i, n) == Ratio(i * 100, n)

\* (variant: i < srtEntries.length - 1, the last entry never reached)
MoreEntries_StopShort(i, n) == i + 1 < n

\* the for loop's `i++; i < srtEntries.length` after job i (1-based)
MoreEntries(i, n) == i < n

\* the catch of the loop body: one message naming the entry's timestamp
WithJobError(s, e) == [s EXCEPT !.errors = Append(@, JobError(e.timestamp))]

\* (variant: setErrors([...]) in the partial case too, the list replaced)
FinalErrors_Replace(errs, k, n) ==
    IF k = 0 THEN <<NoneCaptured>>
    ELSE IF k < n THEN <<PartialCapture(k, n)>>
    ELSE errs

\* the aggregate report after the loop
FinalErrors(errs, k, n) ==
    IF k = 0 THEN <<NoneCaptured>>
    ELSE IF k < n THEN Append(errs, PartialCapture(k, n))
    ELSE errs

\* after the attempt of job i: progress, then the next entry or the end of
\* the run (results published, aggregate reported, isProcessing cleared)
Conclude(E, i, s, shots) ==
    LET n  == Len(E)
        s1 == [s EXCEPT !.processingProgress = ProgressAfter(i, n)]
    IN IF MoreEntries(i, n)
       THEN Orch("delay", i + 1, shots, s1, "none")
       ELSE Orch("idle", 0, shots,
                 [s1 EXCEPT !.screenshots = shots,
                            !.objectUrls =
                                EffectCleanup(s1.objectUrls, s1.screenshots,
                                              videoUrl),
                            !.errors = FinalErrors(s1.errors, Len(shots), n),
                            !.isProcessing = FALSE],
                 "completed")

\* may `video.currentTime = t` throw?  Only with no media data at all
\* (InvalidStateError in engines that predate the default playback start
\* position); the times themselves are always finite.
ThrowChoices(v) == IF v.readyState = 0 THEN BOOLEAN ELSE {FALSE}

\* captureScreenshot(E[i].timeInSeconds, i-1) of run r is called, with the
\* React state s, the job bookkeeping j and the video v as the caller sees
\* them; th: the assignment of currentTime throws
BeginJob(E, r, i, s, j, shots, v, th) ==
    LET t  == E[i].timeInSeconds
        j0 == [j EXCEPT !.attempted = Append(@, i),
                        !.lastDur = v.duration,
                        !.err = "none"]
    IN IF OutOfRange(t, v.duration)
       THEN /\ SetJobs([j0 EXCEPT !.state[i] = "Failed",
                                  !.err = "OutOfRange"])
            /\ UNCHANGED <<hooks, vidPos>>
            /\ Conclude(E, i, WithJobError(s, E[i]), shots)
       ELSE IF th
       THEN /\ SetJobs([j0 EXCEPT !.state[i] = "Failed",
                                  !.err = "SeekException",
                                  !.resolved = @ \cup {i}])
            /\ hooks' = cleanup(AddHooks(hooks, i), i)
            /\ UNCHANGED vidPos
            /\ Conclude(E, i, WithJobError(s, E[i]), shots)
       ELSE /\ hooks' = AddHooks(hooks, i)
            /\ currentTime' = t
            /\ IF v.readyState = 0
               THEN \* no media yet: only the default start position is set
                    /\ vidSeek' = vidSeek
                    /\ SetJobs([j0 EXCEPT !.state[i] = "Seeking",
                                          !.seekRequested = @ \cup {i}])
               ELSE \* a seek starts; a seek still running is abandoned
                    /\ vidSeek' = [run |-> r, job |-> i]
                    /\ SetJobs([j0 EXCEPT
                         !.state[i] = "Seeking",
                         !.seekRequested = @ \cup {i},
                         !.seekOverlapped =
                             IF vidSeek # NoSeek THEN @ \cup {i} ELSE @])
            /\ Orch("await", i, shots, s, "none")

(* ---------------------------- file uploads ------------------------------ *)

\* handleVideoUpload, and the reload of the <video> whose src changed
VideoUpload(isVideo) ==
    /\ uploads' = uploads + 1
    /\ lastDisturbed' = IF isProcessing THEN runId ELSE lastDisturbed
    /\ IF isVideo
       THEN /\ videoFile' = TRUE
            /\ errors' = <<>>
            /\ videoLoaded' = FALSE
            /\ videoUrl' = uploads + 1
            /\ objectUrls' =
                 CreateUrl(
                   EffectCleanup(
                     RevokeUrls(objectUrls,
                                IF videoUrl # 0
                                THEN {VideoObjectUrl(videoUrl)} ELSE {}),
                     screenshots, videoUrl),
                   VideoObjectUrl(uploads + 1))
            /\ readyState' = 0
            /\ duration' = NaN
            /\ videoWidth' = 0
            /\ currentTime' = 0
            /\ vidSeek' = NoSeek
            /\ seekedPending' = NoSeek
       ELSE /\ errors' = <<Fatal("Please select a valid video file")>>
            /\ UNCHANGED <<videoFile, videoLoaded, videoUrl, objectUrls,
                           vidMeta, vidPos, seekedPending>>
    /\ Rest
    /\ UNCHANGED <<srtEntries, screenshots, isProcessing, processingProgress,
                   waitVars, runVars, hooks, canvasWidth>>
    /\ UNCHANGED sideVars

\* handleSRTUpload, once the file's text has been read and parsed to es
SRTUpload(es) ==
    /\ uploads' = uploads + 1
    /\ lastDisturbed' = IF isProcessing THEN runId ELSE lastDisturbed
    /\ srtEntries' = es
    /\ errors' = IF Len(es) = 0
                 THEN <<Fatal("No question timestamps found in SRT file")>>
                 ELSE <<>>
    /\ Rest
    /\ UNCHANGED <<videoFile, videoUrl, videoLoaded, screenshots,
                   isProcessing, processingProgress, objectUrls, vidMeta,
                   vidPos,
                   waitVars, runVars, hooks, canvasWidth, seekedPending>>
    /\ UNCHANGED sideVars

(* ------------------------- generateScreenshots -------------------------- *)

\* (variant: the button stays enabled during a run)
canGenerate_Always == videoFile /\ Len(srtEntries) > 0 /\ videoLoaded

\* the Generate button is enabled
canGenerate == videoFile /\ Len(srtEntries) > 0 /\ videoLoaded /\ ~isProcessing

\* the catch around the whole run (readiness failure), then the finally
AbortRun(msg) ==
    Orch("idle", 0, newScreenshots,
         [Cur EXCEPT !.errors = <<Fatal(msg)>>, !.isProcessing = FALSE],
         "aborted")

\* waitForVideoReady resolved: the loop starts with job 1, without a delay
StartLoop(E, r, s, j, v, w) ==
    /\ readyAt' = [duration |-> v.duration, videoWidth |-> w]
    /\ \E th \in ThrowChoices(v) : BeginJob(E, r, 1, s, j, <<>>, v, th)

\* a run's fresh job bookkeeping
FreshJobs(E) ==
    [state |-> [k \in 1..Len(E) |-> "Pending"],
     err |-> "none",
     resolved |-> {},
     attempted |-> <<>>,
     lastDur |-> NaN,
     seekRequested |-> {},
     seekOverlapped |-> {}]

\* (variant: the selection is left as it was)
ResetSelection_Kept(prev) == prev

\* setSelectedScreenshots(new Set())
ResetSelection(prev) == {}

\* click on Generate: generateScreenshots up to its first suspension
GenerateClick ==
    /\ canGenerate
    /\ runId < MaxRuns
    /\ IF ~videoFile \/ Len(srtEntries) = 0 \/ videoUrl = 0
       THEN /\ errors' = <<Fatal("Please upload both video and SRT files")>>
            /\ Rest
            /\ UNCHANGED <<screenshots, isProcessing, processingProgress,
                           objectUrls, waitVars, runVars, hooks, vidPos>>
       ELSE LET E  == srtEntries
                r  == runId + 1
                s0 == [errors |-> <<>>, screenshots |-> <<>>,
                       isProcessing |-> TRUE,
                       processingProgress |-> Ratio(0, 1),
                       objectUrls |->
                           EffectCleanup(objectUrls, screenshots, videoUrl)]
            IN /\ runId' = r
               /\ runEntries' = E
               /\ selectedScreenshots' = ResetSelection(selectedScreenshots)
               /\ IF readyState >= 2 /\ videoWidth > 0
                  THEN /\ UNCHANGED waitVars
                       /\ StartLoop(E, r, s0, FreshJobs(E), CurVideo,
                                    videoWidth)
                  ELSE /\ readyListeners' = r
                       /\ readyTimers' = readyTimers \cup {r}
                       /\ readyAt' = NotConfirmed
                       /\ SetJobs(FreshJobs(E))
                       /\ Orch("waitReady", 0, <<>>, s0, "none")
                       /\ UNCHANGED <<hooks, vidPos>>
    /\ UNCHANGED <<fileVars, vidMeta, canvasWidth, seekedPending>>
    /\ UNCHANGED sideVars

\* (variant: captureScreenshot is not awaited; after the pause the loop goes
\* on to the next entry while the job before it is still under way)
DelayElapsed_NoAwait ==
    /\ pc \in {"delay", "await"}
    /\ LET i == IF pc = "delay" THEN idx ELSE idx + 1
       IN /\ i <= Len(runEntries)
          /\ \E th \in ThrowChoices(CurVideo) :
                BeginJob(runEntries, runId, i, Cur, CurJobs, newScreenshots,
                         CurVideo, th)
    /\ UNCHANGED <<fileVars, runVars, closVars, vidMeta, waitVars,
                   canvasWidth, seekedPending>>
    /\ UNCHANGED sideVars

\* the 100 ms pause before job idx (idx > 1) has elapsed
DelayElapsed ==
    /\ pc = "delay"
    /\ \E th \in ThrowChoices(CurVideo) :
          BeginJob(runEntries, runId, idx, Cur, CurJobs, newScreenshots,
                   CurVideo, th)
    /\ UNCHANGED <<fileVars, runVars, closVars, vidMeta, waitVars,
                   canvasWidth, seekedPending>>
    /\ UNCHANGED sideVars

(* --------------------- the <video> element loading ---------------------- *)

\* the metadata of the chosen file is known: 'loadedmetadata' is fired.
\* handleLoadedMetadata, if registered, resolves the readiness wait.
VideoLoadedMetadata ==
    /\ videoUrl # 0
    /\ readyState = 0
    /\ \E d \in Durations, w \in Widths :
         /\ readyState' = 1
         /\ duration' = d
         /\ videoWidth' = w
         /\ IF readyListeners # 0
            THEN /\ readyListeners' = 0
                 /\ UNCHANGED <<readyTimers, runEntries>>
                 /\ StartLoop(runEntries, runId, Cur, CurJobs,
                              [readyState |-> 1, duration |-> d], w)
            ELSE /\ Rest
                 /\ UNCHANGED <<waitVars, reactVars, hooks, vidPos>>
    /\ UNCHANGED <<fileVars, runVars, canvasWidth, seekedPending>>
    /\ UNCHANGED sideVars

\* the first frame is available: 'loadeddata' is fired (onLoadedData)
VideoLoadedData ==
    /\ videoUrl # 0
    /\ readyState = 1
    /\ readyState' = 2
    /\ videoLoaded' = TRUE
    /\ Rest
    /\ UNCHANGED <<duration, videoWidth, videoFile, videoUrl, srtEntries,
                   uploads, lastDisturbed, reactVars, vidPos, waitVars,
                   runVars, hooks, canvasWidth, seekedPending>>
    /\ UNCHANGED sideVars

\* enough data to play: 'canplay' is fired (onCanPlay, and handleCanPlay if
\* registered, which resolves the readiness wait)
VideoCanPlay ==
    /\ videoUrl # 0
    /\ readyState = 2
    /\ readyState' = 3
    /\ videoLoaded' = TRUE
    /\ IF readyListeners # 0
       THEN /\ readyListeners' = 0
            /\ UNCHANGED <<readyTimers, runEntries>>
            /\ StartLoop(runEntries, runId, Cur, CurJobs,
                         [readyState |-> 3, duration |-> duration],
                         videoWidth)
       ELSE /\ Rest
            /\ UNCHANGED <<waitVars, reactVars, hooks, vidPos>>
    /\ UNCHANGED <<duration, videoWidth, videoFile, videoUrl, srtEntries,
                   uploads, lastDisturbed, runVars, canvasWidth,
                   seekedPending>>
    /\ UNCHANGED sideVars

(* -------------------------- waitForVideoReady --------------------------- *)

\* the 10 s timer of run r fires while that run still waits: the listeners
\* are removed and the promise is rejected
ReadyTimeoutAborts(r) ==
    /\ r \in readyTimers
    /\ readyListeners = r
    /\ readyTimers' = readyTimers \ {r}
    /\ readyListeners' = 0
    /\ AbortRun("Video loading timeout")
    /\ UNCHANGED <<closVars, jobVars, fileVars, runVars, vidMeta, vidPos,
                   hooks, canvasWidth, seekedPending>>
    /\ UNCHANGED sideVars

\* (variant: the late reject of the 10 s timer is not ignored)
ReadyTimeoutStale_Rejects(r) ==
    /\ r \in readyTimers
    /\ readyListeners # r
    /\ readyTimers' = readyTimers \ {r}
    /\ AbortRun("Video loading timeout")
    /\ UNCHANGED <<readyListeners, closVars, jobVars, fileVars, runVars,
                   vidMeta, vidPos, hooks, canvasWidth, seekedPending>>
    /\ UNCHANGED sideVars

\* the 10 s timer of run r fires after the wait of run r was settled: the
\* removals find nothing and the reject is ignored
ReadyTimeoutStale(r) ==
    /\ r \in readyTimers
    /\ readyListeners # r
    /\ readyTimers' = readyTimers \ {r}
    /\ Rest
    /\ UNCHANGED <<readyListeners, reactVars, fileVars, runVars, vidMeta,
                   vidPos, hooks, canvasWidth, seekedPending>>
    /\ UNCHANGED sideVars

(* ------------------- the <video> element seeking ------------------------ *)

\* the outstanding seek reaches its position: 'seeked' is queued as a task
SeekCompletes ==
    /\ vidSeek # NoSeek
    /\ seekedPending = NoSeek
    /\ vidSeek' = NoSeek
    /\ seekedPending' = vidSeek
    /\ Rest
    /\ UNCHANGED <<currentTime, reactVars, vidMeta, waitVars, fileVars,
                   runVars, hooks, canvasWidth>>
    /\ UNCHANGED sideVars

\* the queued 'seeked' event is dispatched and no listener is registered
SeekedUnheard ==
    /\ seekedPending # NoSeek
    /\ hooks.seeked = {}
    /\ seekedPending' = NoSeek
    /\ Rest
    /\ UNCHANGED <<reactVars, vidMeta, vidPos, waitVars, fileVars, runVars,
                   hooks, canvasWidth>>
    /\ UNCHANGED sideVars

\* (variant: handleSeeked neither sets isResolved nor calls cleanup())
handleSeeked_Leaky(i) ==
    /\ canvasWidth' = videoWidth
    /\ jobState' = [jobState EXCEPT ![i] = "Rendering"]
    /\ UNCHANGED <<isResolved, hooks, lastErr, attempted, lastDur,
                   seekRequested, seekOverlapped>>

\* handleSeeked of job i: the frame is drawn and toBlob is requested (the
\* canvas has no other context, so getContext('2d') delivers one)
handleSeeked(i) ==
    IF i \in isResolved
    THEN UNCHANGED <<jobVars, hooks, canvasWidth>>
    ELSE /\ isResolved' = isResolved \cup {i}
         /\ hooks' = cleanup(hooks, i)
         /\ canvasWidth' = videoWidth
         /\ jobState' = [jobState EXCEPT ![i] = "Rendering"]
         /\ UNCHANGED <<lastErr, attempted, lastDur, seekRequested,
                        seekOverlapped>>

\* the queued 'seeked' event is dispatched to the listener of job i
SeekedHeard(i) ==
    /\ seekedPending # NoSeek
    /\ i \in hooks.seeked
    /\ seekedPending' = NoSeek
    /\ handleSeeked(i)
    /\ runEnd' = "none"
    /\ UNCHANGED <<reactVars, pc, loopVars, closVars, vidMeta, vidPos,
                   waitVars, fileVars, runVars>>
    /\ UNCHANGED sideVars

\* may toBlob deliver a blob?  Never for an empty canvas.
BlobChoices == IF canvasWidth = 0 THEN {FALSE} ELSE BOOLEAN

\* the toBlob callback of job i, with a blob (ok) or with null
BlobCallback(i, ok) ==
    /\ i \in DOMAIN jobState
    /\ jobState[i] = "Rendering"
    /\ ok \in BlobChoices
    /\ IF ok
       THEN /\ jobState' = [jobState EXCEPT ![i] = "Succeeded"]
            /\ UNCHANGED lastErr
            /\ Conclude(runEntries, i,
                        [Cur EXCEPT !.objectUrls =
                                      CreateUrl(@, ShotUrl(runId, i))],
                        Append(newScreenshots, Shot(runEntries, i)))
       ELSE /\ jobState' = [jobState EXCEPT ![i] = "Failed"]
            /\ lastErr' = "Encode"
            /\ Conclude(runEntries, i, WithJobError(Cur, runEntries[i]),
                        newScreenshots)
    /\ UNCHANGED <<isResolved, attempted, lastDur, seekRequested,
                   seekOverlapped, closVars, hooks, canvasWidth, vidMeta,
                   vidPos, waitVars, fileVars, runVars, seekedPending>>
    /\ UNCHANGED sideVars

\* a job's promise is rejected from one of its handlers: isResolved is set,
\* cleanup() runs, the loop's catch records the error and the loop goes on
RejectJob(i, kind) ==
    /\ isResolved' = isResolved \cup {i}
    /\ hooks' = cleanup(hooks, i)
    /\ jobState' = [jobState EXCEPT ![i] = "Failed"]
    /\ lastErr' = kind
    /\ Conclude(runEntries, i, WithJobError(Cur, runEntries[i]),
                newScreenshots)

\* (variant: the callback of the seek timer settles nothing)
seekTimeout_Silent(i) ==
    /\ hooks' = [hooks EXCEPT !.timer = @ \ {i}]
    /\ runEnd' = "none"
    /\ UNCHANGED <<isResolved, jobState, lastErr, reactVars, pc, loopVars>>

\* the callback of the 5 s seek timer of job i
seekTimeout(i) ==
    IF i \notin isResolved
    THEN RejectJob(i, "SeekTimeout")
    ELSE /\ hooks' = [hooks EXCEPT !.timer = @ \ {i}]
         /\ runEnd' = "none"
         /\ UNCHANGED <<isResolved, jobState, lastErr, reactVars, pc,
                        loopVars>>

\* the 5 s seek timer of job i fires
SeekTimerFires(i) ==
    /\ i \in hooks.timer
    /\ seekTimeout(i)
    /\ UNCHANGED <<attempted, lastDur, seekRequested, seekOverlapped,
                   closVars, canvasWidth, vidMeta, vidPos, waitVars,
                   fileVars, runVars, seekedPending>>
    /\ UNCHANGED sideVars

\* (variant: the handler only rejects; isResolved and cleanup() forgotten)
handleVideoError_Bare(i) ==
    /\ jobState' = [jobState EXCEPT ![i] = "Failed"]
    /\ lastErr' = "VideoError"
    /\ UNCHANGED <<isResolved, hooks>>
    /\ Conclude(runEntries, i, WithJobError(Cur, runEntries[i]),
                newScreenshots)

\* handleVideoError of job i
handleVideoError(i) ==
    IF i \notin isResolved
    THEN RejectJob(i, "VideoError")
    ELSE /\ runEnd' = "none"
         /\ UNCHANGED <<isResolved, hooks, jobState, lastErr, reactVars, pc,
                        loopVars>>

\* the <video> fires 'error' (the media cannot be fetched or decoded) and
\* the error listener of job i hears it; the seek under way is over
VideoErrorInJob(i) ==
    /\ videoUrl # 0
    /\ i \in hooks.error
    /\ vidSeek' = NoSeek
    /\ handleVideoError(i)
    /\ UNCHANGED <<attempted, lastDur, seekRequested, seekOverlapped,
                   closVars, currentTime, canvasWidth, vidMeta, waitVars,
                   fileVars, runVars, seekedPending>>
    /\ UNCHANGED sideVars

\* the <video> fires 'error' while waitForVideoReady waits: handleError
VideoErrorInWait ==
    /\ videoUrl # 0
    /\ readyListeners # 0
    /\ vidSeek' = NoSeek
    /\ readyListeners' = 0
    /\ AbortRun("Failed to load video")
    /\ UNCHANGED <<readyTimers, closVars, jobVars, currentTime, hooks,
                   canvasWidth, vidMeta, fileVars, runVars, seekedPending>>
    /\ UNCHANGED sideVars

\* the <video> fires 'error' and nothing listens
VideoErrorUnheard ==
    /\ videoUrl # 0
    /\ readyListeners = 0
    /\ hooks.error = {}
    /\ vidSeek # NoSeek
    /\ vidSeek' = NoSeek
    /\ Rest
    /\ UNCHANGED <<currentTime, reactVars, vidMeta, waitVars, fileVars,
                   runVars, hooks, canvasWidth, seekedPending>>
    /\ UNCHANGED sideVars

(* --------------------------- specification ------------------------------ *)

Next ==
    \/ \E isVideo \in BOOLEAN : uploads < MaxUploads /\ VideoUpload(isVideo)
    \/ \E es \in EntryLists : uploads < MaxUploads /\ SRTUpload(es)
    \/ GenerateClick
    \/ DelayElapsed
    \/ VideoLoadedMetadata
    \/ VideoLoadedData
    \/ VideoCanPlay
    \/ \E r \in readyTimers : ReadyTimeoutAborts(r)
    \/ \E r \in readyTimers : ReadyTimeoutStale(r)
    \/ SeekCompletes
    \/ SeekedUnheard
    \/ \E i \in hooks.seeked : SeekedHeard(i)
    \/ \E i \in DOMAIN jobState, ok \in BOOLEAN : BlobCallback(i, ok)
    \/ \E i \in hooks.timer : SeekTimerFires(i)
    \/ \E i \in hooks.error : VideoErrorInJob(i)
    \/ VideoErrorInWait
    \/ VideoErrorUnheard

Spec == Init /\ [][Next]_vars

\* What the browser is bound to do once it is due: a timer that was set and
\* not cleared fires (the 100 ms pause, the 10 s readiness timer, the 5 s
\* seek timer), and toBlob calls back.  Nothing is assumed of the loading
\* and the seeking of the video, nor of the user.
Scheduling ==
    /\ WF_vars(DelayElapsed)
    /\ \A r \in 1..MaxRuns : WF_vars(ReadyTimeoutAborts(r))
    /\ \A i \in 1..MaxEntries : WF_vars(SeekTimerFires(i))
    /\ \A i \in 1..MaxEntries : WF_vars(\E ok \in BOOLEAN : BlobCallback(i, ok))

FairSpec == Spec /\ Scheduling

(* ------------------- the naming of two results ------------------------- *)

\* one result to be named: its loop index, its entry's time, the clock value
\* read in its toBlob callback
NamingInputs ==
    [index : Indices, ms : TimesMs, loss : Losses, now : ClockValues]

\* two results of one run are picked: the loop gives them different indices
NamingInit ==
    /\ Constructed
    /\ parsing = NoParsing
    /\ player = NoPlayer
    /\ \E a \in NamingInputs, b \in NamingInputs :
         /\ a.index < b.index
         /\ naming = [phase |-> "picked", a |-> a, b |-> b]

Named(x) == [id |-> ShotId(x.now, x.index),
             filename |-> Filename(x.index, x.ms, x.loss)]

\* the toBlob callbacks of both build the id and the filename
NameResults ==
    /\ naming.phase = "picked"
    /\ naming' = [phase |-> "named", a |-> naming.a, b |-> naming.b,
                  ra |-> Named(naming.a), rb |-> Named(naming.b)]
    /\ UNCHANGED <<reactVars, pc, loopVars, jobVars, vidMeta, vidPos,
                   waitVars, fileVars, runVars, closVars, hooks, canvasWidth,
                   seekedPending, runEnd, uiVars, parsing, player>>

NamingNext == NameResults

NamingSpec == NamingInit /\ [][NamingNext]_vars

(* -------------------- the parsing of a subtitle file -------------------- *)

\* a subtitle file of up to MaxBlocks blocks has been read
ParsingInit ==
    /\ Constructed
    /\ naming = NoNaming
    /\ player = NoPlayer
    /\ \E bs \in SeqsUpTo(BlockShapes, MaxBlocks), ends \in LineEnds :
         parsing = [phase |-> "read", blocks |-> bs, ends |-> ends]

\* handleSRTUpload: const entries = parseSRT(content)
ParseFile ==
    /\ parsing.phase = "read"
    /\ parsing' = [phase |-> "parsed", blocks |-> parsing.blocks,
                   ends |-> parsing.ends,
                   entries |-> parseSRT(Content(parsing.blocks,
                                                parsing.ends))]
    /\ UNCHANGED <<reactVars, pc, loopVars, jobVars, vidMeta, vidPos,
                   waitVars, fileVars, runVars, closVars, hooks, canvasWidth,
                   seekedPending, runEnd, uiVars, naming, player>>

ParseNext == ParseFile

ParseSpec == ParsingInit /\ [][ParseNext]_vars

(* ------------------- selection and export of the results ---------------- *)

\* a task of the results section or of an export: the capture pipeline, the
\* files and the <video> stay as they are. downloadBlob creates an object URL
\* and revokes it in the same call, which leaves objectUrls as it was.
UiTask ==
    /\ Rest
    /\ UNCHANGED <<screenshots, isProcessing, processingProgress, objectUrls,
                   vidMeta, vidPos, waitVars, fileVars, runId, hooks,
                   canvasWidth, seekedPending, naming, parsing, player>>

\* the mount effect's checkLibraries, first import: loadJSZip settles
JSZipChecked(ok) ==
    /\ libraryCheck = "jszip"
    /\ libraryCheck' = "filesaver"
    /\ libraryStatus' = IF ok THEN [libraryStatus EXCEPT !.jszip = TRUE]
                        ELSE libraryStatus
    /\ UiTask
    /\ UNCHANGED <<errors, selectedScreenshots, exports>>

\* checkLibraries, second import: loadFileSaver settles
FileSaverChecked(ok) ==
    /\ libraryCheck = "filesaver"
    /\ libraryCheck' = "done"
    /\ libraryStatus' = IF ok THEN [libraryStatus EXCEPT !.filesaver = TRUE]
                        ELSE libraryStatus
    /\ UiTask
    /\ UNCHANGED <<errors, selectedScreenshots, exports>>

\* the ids of the results on display
ShownIds == {IdOf(screenshots[k]) : k \in DOMAIN screenshots}

\* the updater of toggleScreenshotSelection
Toggled(prev, id) == IF id \in prev THEN prev \ {id} ELSE prev \cup {id}

\* click on a result's image or Select button (rendered per result)
toggleScreenshotSelection(id) ==
    /\ id \in ShownIds
    /\ selectedScreenshots' = Toggled(selectedScreenshots, id)
    /\ UiTask
    /\ UNCHANGED <<errors, uiVars>>

\* (variant: decided by the selection being non-empty)
AllToggled_NonEmpty(prev, shots) ==
    IF prev # {}
    THEN {}
    ELSE {IdOf(shots[k]) : k \in DOMAIN shots}

\* the updater of toggleSelectAll
AllToggled(prev, shots) ==
    IF Cardinality(prev) = Len(shots)
    THEN {}
    ELSE {IdOf(shots[k]) : k \in DOMAIN shots}

\* click on Select All / Deselect All (rendered when there are results)
toggleSelectAll ==
    /\ Len(screenshots) > 0
    /\ selectedScreenshots' = AllToggled(selectedScreenshots, screenshots)
    /\ UiTask
    /\ UNCHANGED <<errors, uiVars>>

\* the negation of `!libraryStatus.jszip || !libraryStatus.filesaver`
LibrariesAvailable(status) == status.jszip /\ status.filesaver

\* fetch(url) of an object URL: the blob is found when the call is made, if
\* the URL has not been revoked
Fetchable(url) == url \in objectUrls.valid

\* (variant: the delays run the other way)
Staggered_Reversed(scope) ==
    [i \in 1..Len(scope) |->
        [delay |-> (Len(scope) - i) * 500, shot |-> scope[i]]]

\* the loop of the catch block: setTimeout(() => downloadSingleScreenshot(
\* scope[i]), i * 500), i 0-based
Staggered(scope) ==
    [i \in 1..Len(scope) |-> [delay |-> (i - 1) * 500, shot |-> scope[i]]]

\* the catch block of an export, entered with an error whose message has
\* 'not available' in it or with another: the single downloads are scheduled
Fallback(x, notAvailable) ==
    [x EXCEPT !.pc = "fallback",
              !.thrown = IF notAvailable THEN "not available" ELSE "other",
              !.timers = Staggered(x.scope)]

\* the message the catch block sets, by the message of what was thrown
FallbackError(notAvailable) ==
    IF notAvailable
    THEN Fatal("Download libraries not available. Downloading individually")
    ELSE Fatal("Failed to create zip file. Downloading individually")

\* an export up to its first suspension: the check of the flags throws, or
\* the import of JSZip is awaited
BeginExport(kind, sel, scope) ==
    LET x == [NoExport EXCEPT !.kind = kind, !.shown = screenshots,
                              !.sel = sel, !.scope = scope]
    IN IF ~LibrariesAvailable(libraryStatus)
       THEN Fallback(x, TRUE)
       ELSE [x EXCEPT !.pc = "loadJSZip"]

\* the slot the next export takes: the first one not yet used
Free(e) ==
    /\ exports[e].pc = "idle"
    /\ \A d \in 1..(e - 1) : exports[d].pc # "idle"

StartExport(e, kind, sel, scope) ==
    /\ Free(e)
    /\ exports' = [exports EXCEPT ![e] = BeginExport(kind, sel, scope)]
    /\ errors' = IF LibrariesAvailable(libraryStatus)
                 THEN errors ELSE <<FallbackError(TRUE)>>
    /\ UiTask
    /\ UNCHANGED <<selectedScreenshots, libraryStatus, libraryCheck>>

\* an export handler returns early: setErrors([msg]) and nothing else
ReportOnly(msg) ==
    /\ errors' = <<Fatal(msg)>>
    /\ UiTask
    /\ UNCHANGED <<selectedScreenshots, uiVars>>

\* downloadAllScreenshots up to its first suspension
downloadAllScreenshots(e) ==
    IF Len(screenshots) = 0
    THEN ReportOnly("No screenshots available to download")
    ELSE StartExport(e, "all", {}, screenshots)

\* screenshots.filter(screenshot => selectedScreenshots.has(screenshot.id))
selectedScreens ==
    SelectSeq(screenshots, LAMBDA shot : IdOf(shot) \in selectedScreenshots)

\* (variant: the selection is not looked at before the export starts)
downloadSelectedScreenshots_Unchecked(e) ==
    StartExport(e, "selected", selectedScreenshots, selectedScreens)

\* downloadSelectedScreenshots up to its first suspension
downloadSelectedScreenshots(e) ==
    IF Cardinality(selectedScreenshots) = 0
    THEN ReportOnly("Please select at least one screenshot to download")
    ELSE StartExport(e, "selected", selectedScreenshots, selectedScreens)

\* the results section is rendered
ResultsShown == Len(screenshots) > 0

\* the Download Selected button is rendered and not disabled
SelectedEnabled == ResultsShown /\ Cardinality(selectedScreenshots) # 0

\* an export goes on in slot e: x is its closure after the step
ExportStep(e, x, errs) ==
    /\ exports' = [exports EXCEPT ![e] = x]
    /\ errors' = errs
    /\ UiTask
    /\ UNCHANGED <<selectedScreenshots, libraryStatus, libraryCheck>>

\* the loop over the scope: fetch of entry k is called, or, past the last
\* entry, zip.generateAsync
FetchNext(x, k) ==
    IF k <= Len(x.scope)
    THEN [x EXCEPT !.pc = "fetch", !.got = Fetchable(x.scope[k].url)]
    ELSE [x EXCEPT !.pc = "generateAsync"]

\* `await loadJSZip()` settles
ExportJSZipLoaded(e, ok) ==
    /\ exports[e].pc = "loadJSZip"
    /\ IF ok
       THEN ExportStep(e, [exports[e] EXCEPT !.pc = "loadFileSaver"], errors)
       ELSE ExportStep(e, Fallback(exports[e], TRUE), <<FallbackError(TRUE)>>)

\* `await loadFileSaver()` settles; new JSZip(); the first fetch is called
ExportFileSaverLoaded(e, ok) ==
    /\ exports[e].pc = "loadFileSaver"
    /\ IF ok
       THEN ExportStep(e, FetchNext(exports[e], 1), errors)
       ELSE ExportStep(e, Fallback(exports[e], TRUE), <<FallbackError(TRUE)>>)

\* (variant: the entry is named by the timestamp alone)
ZipFile_ByTimestamp(x, shot) ==
    [x EXCEPT !.zip = @ \cup {TimestampOf(shot)}, !.added = @ + 1]

\* zip.file(screenshot.filename, blob)
ZipFile(x, shot) ==
    [x EXCEPT !.zip = @ \cup {FilenameOf(shot)}, !.added = @ + 1]

\* the fetch of an entry's image settles, and response.blob() after it
ExportFetched(e) ==
    LET x == exports[e]
        k == x.added + 1
    IN /\ x.pc = "fetch"
       /\ IF x.got
          THEN ExportStep(e, FetchNext(ZipFile(x, x.scope[k]), k + 1), errors)
          ELSE ExportStep(e, Fallback(x, FALSE), <<FallbackError(FALSE)>>)

\* zip.generateAsync settles; saveAs(zipBlob, ...); setErrors([])
ExportGenerated(e, ok) ==
    /\ exports[e].pc = "generateAsync"
    /\ IF ok
       THEN ExportStep(e, [exports[e] EXCEPT !.pc = "saved"], <<>>)
       ELSE ExportStep(e, Fallback(exports[e], FALSE),
                       <<FallbackError(FALSE)>>)

\* downloadSingleScreenshot: the file is delivered by downloadBlob, or the
\* fetch fails and an alert is shown
downloadSingleScreenshot(shot) ==
    [file |-> FilenameOf(shot), delivered |-> Fetchable(shot.url)]

\* of the timers of x not yet fired, the one due first (of two timers due
\* at the same time, the one set first)
DueFirst(x, i) ==
    /\ i \in DOMAIN x.timers \ x.fired
    /\ \A j \in DOMAIN x.timers \ x.fired :
          \/ x.timers[i].delay < x.timers[j].delay
          \/ x.timers[i].delay = x.timers[j].delay /\ i <= j

\* a timer of a fallback fires
ExportTimerFires(e, i) ==
    LET x == exports[e]
    IN /\ x.pc = "fallback"
       /\ DueFirst(x, i)
       /\ ExportStep(e, [x EXCEPT !.fired = @ \cup {i},
                                  !.outcomes = Append(@,
                                      downloadSingleScreenshot(
                                          x.timers[i].shot))],
                     errors)

\* the user sets the files up once the library check of the mount effect
\* has settled and while no run is in progress
SetUp == libraryCheck = "done" /\ ~isProcessing /\ uploads < MaxChoices

VideoChosen == SetUp /\ VideoUpload(TRUE)

SubtitlesChosen(es) == SetUp /\ SRTUpload(es)

\* the component with its results section, while the video answers every
\* seek and raises no error event
UiNext ==
    \/ VideoChosen
    \/ \E es \in EntryLists : SubtitlesChosen(es)
    \/ GenerateClick
    \/ DelayElapsed
    \/ VideoLoadedMetadata
    \/ VideoLoadedData
    \/ VideoCanPlay
    \/ SeekCompletes
    \/ \E i \in hooks.seeked : SeekedHeard(i)
    \/ \E i \in DOMAIN jobState, ok \in BOOLEAN : BlobCallback(i, ok)
    \/ \E ok \in BOOLEAN : JSZipChecked(ok)
    \/ \E ok \in BOOLEAN : FileSaverChecked(ok)
    \/ \E id \in ShownIds : toggleScreenshotSelection(id)
    \/ toggleSelectAll
    \/ \E e \in DOMAIN exports : ResultsShown /\ downloadAllScreenshots(e)
    \/ \E e \in DOMAIN exports :
          SelectedEnabled /\ downloadSelectedScreenshots(e)
    \/ \E e \in DOMAIN exports, ok \in BOOLEAN : ExportJSZipLoaded(e, ok)
    \/ \E e \in DOMAIN exports, ok \in BOOLEAN : ExportFileSaverLoaded(e, ok)
    \/ \E e \in DOMAIN exports : ExportFetched(e)
    \/ \E e \in DOMAIN exports, ok \in BOOLEAN : ExportGenerated(e, ok)
    \/ \E e \in DOMAIN exports, i \in 1..MaxEntries : ExportTimerFires(e, i)

UiSpec == Init /\ [][UiNext]_vars

\* click on the Download button of the card of result k:
\* downloadSingleScreenshot up to `await fetch(screenshot.url)`
SingleDownloadClick(e, k) ==
    /\ k \in DOMAIN screenshots
    /\ Free(e)
    /\ ExportStep(e, [NoExport EXCEPT !.pc = "fetchOne", !.kind = "one",
                                      !.shown = screenshots,
                                      !.scope = <<screenshots[k]>>,
                                      !.got = Fetchable(screenshots[k].url)],
                  errors)

\* the fetch of the single download settles: downloadBlob, or the alert
SingleFetched(e) ==
    LET x == exports[e]
    IN /\ x.pc = "fetchOne"
       /\ ExportStep(e, [x EXCEPT !.pc = "done",
                                  !.outcomes =
                                      <<[file |-> FilenameOf(x.scope[1]),
                                         delivered |-> x.got]>>],
                     errors)

\* the export handlers as the functions they are: called in whatever state
\* the component is in, whether or not a button for them is on display
HandlerNext ==
    \/ UiNext
    \/ \E e \in DOMAIN exports : downloadAllScreenshots(e)
    \/ \E e \in DOMAIN exports : downloadSelectedScreenshots(e)
    \/ \E e \in DOMAIN exports, k \in 1..MaxEntries : SingleDownloadClick(e, k)
    \/ \E e \in DOMAIN exports : SingleFetched(e)

HandlerSpec == Init /\ [][HandlerNext]_vars

(* ----------------------- the quiz player (script.js) -------------------- *)

\* Times are in half seconds.  The latest position of the video looked at,
\* and the most subtitles a file holds
MaxTime == 10
MaxSubtitles == 2

\* the 1.5 s after the end of a question's last subtitle
PauseLag == 3

\* what parseSRT and the file reader deliver: subtitles with start, end and
\* whether the text, trimmed, starts with 'Question' (all of them numbered)
SubtitleFiles ==
    SeqsUpTo({[start |-> 1, end |-> 2, question |-> TRUE],
              [start |-> 3, end |-> 3, question |-> FALSE],
              [start |-> 6, end |-> 7, question |-> TRUE]}, MaxSubtitles)

\* the script has run to its end: the globals as declared, then
\* loadPausePreference() with what localStorage holds of an earlier visit.
\* lastProcessedSubtitle is an index into subtitles, 0 for null and for a
\* subtitle of a file loaded before (an object no current subtitle equals);
\* currentQuestionEndTime is <<>> for null.  autoPauses counts the pauses
\* issued since the flag was last set, pausedWhileOff tells of a pause
\* issued with the preference off.
PlayerInit ==
    /\ Constructed
    /\ naming = NoNaming
    /\ parsing = NoParsing
    /\ \E saved \in {"null", "true", "false"} :
         player = [phase |-> "on",
                   saved |-> saved,
                   pauseAtQuestionEnd |->
                       IF saved # "null" THEN saved = "true" ELSE TRUE,
                   shouldPauseAfterQuestion |-> FALSE,
                   currentQuestionEndTime |-> <<>>,
                   lastProcessedSubtitle |-> 0,
                   subtitles |-> <<>>,
                   currentTime |-> 0,
                   paused |-> TRUE,
                   autoPauses |-> 0,
                   pausedWhileOff |-> FALSE]

\* a task of the quiz player: nothing of the screenshot generator changes
PlayerStep(p) ==
    /\ player.phase = "on"
    /\ player' = p
    /\ UNCHANGED <<reactVars, pc, loopVars, jobVars, vidMeta, vidPos,
                   waitVars, fileVars, runVars, closVars, hooks, canvasWidth,
                   seekedPending, runEnd, uiVars, naming, parsing>>

\* updateSubtitle, the first listener of 'timeupdate', on the globals p
updateSubtitle(p) ==
    LET found == {k \in DOMAIN p.subtitles :
                     /\ p.currentTime >= p.subtitles[k].start
                     /\ p.currentTime <= p.subtitles[k].end}
    IN IF found = {}
       THEN p
       ELSE LET k == CHOOSE i \in found : \A j \in found : i <= j
                currentSubtitle == p.subtitles[k]
            IN IF k = p.lastProcessedSubtitle
               THEN p
               ELSE IF currentSubtitle.question
               THEN [p EXCEPT
                       !.lastProcessedSubtitle = k,
                       !.shouldPauseAfterQuestion =
                           IF p.pauseAtQuestionEnd THEN TRUE ELSE @,
                       !.autoPauses = IF p.pauseAtQuestionEnd THEN 0 ELSE @,
                       !.currentQuestionEndTime = <<currentSubtitle.end>>]
               ELSE [p EXCEPT
                       !.lastProcessedSubtitle = k,
                       !.currentQuestionEndTime = <<currentSubtitle.end>>]

\* the second listener of 'timeupdate': the pause after a question
pauseCheck(p) ==
    IF /\ p.shouldPauseAfterQuestion
       /\ p.currentQuestionEndTime # <<>>
       /\ p.currentTime >= p.currentQuestionEndTime[1] + PauseLag
    THEN [p EXCEPT !.paused = TRUE,
                   !.shouldPauseAfterQuestion = FALSE,
                   !.autoPauses = IF @ < 2 THEN @ + 1 ELSE @,
                   !.pausedWhileOff = @ \/ ~p.pauseAtQuestionEnd]
    ELSE p

\* the video is at t, by playing or by a seek, and 'timeupdate' is
\* dispatched to its two listeners in the order they were added
TimeUpdate(t) ==
    PlayerStep(pauseCheck(updateSubtitle([player EXCEPT !.currentTime = t])))

\* (variant: the pending pause outlives the preference)
togglePause_NoReset ==
    PlayerStep([player EXCEPT
        !.pauseAtQuestionEnd = ~@,
        !.saved = IF player.pauseAtQuestionEnd THEN "false" ELSE "true"])

\* click on togglePauseButton (the button is given the class 'hidden' while
\* the preference is off; the stylesheet decides whether it can still be
\* clicked, so the click is taken in both states)
togglePause ==
    PlayerStep([player EXCEPT
        !.pauseAtQuestionEnd = ~@,
        !.saved = IF player.pauseAtQuestionEnd THEN "false" ELSE "true",
        !.shouldPauseAfterQuestion =
            IF player.pauseAtQuestionEnd THEN FALSE ELSE @])

\* reader.onload of the subtitle input: subtitles = parseSRT(srtContent)
SrtLoaded(subs) ==
    PlayerStep([player EXCEPT !.subtitles = subs,
                              !.lastProcessedSubtitle = 0])

\* click on the button of the question that subtitle k holds
QuestionButtonClick(k) ==
    /\ k \in DOMAIN player.subtitles
    /\ player.subtitles[k].question
    /\ PlayerStep([player EXCEPT
           !.currentTime = player.subtitles[k].start,
           !.lastProcessedSubtitle = 0,
           !.paused = FALSE])

\* the user plays or pauses the video with its controls
UserPlayPause == PlayerStep([player EXCEPT !.paused = ~@])

PlayerNext ==
    \/ \E t \in 0..MaxTime : TimeUpdate(t)
    \/ togglePause
    \/ \E subs \in SubtitleFiles : SrtLoaded(subs)
    \/ \E k \in 1..MaxSubtitles : QuestionButtonClick(k)
    \/ UserPlayPause

PlayerSpec == PlayerInit /\ [][PlayerNext]_vars

(* ------------------------------ claims ---------------------------------- *)

Last(q) == q[Len(q)]
Final == {"Succeeded", "Failed"}
Jobs == DOMAIN jobState
JobsIn(S) == {i \in Jobs : jobState[i] \in S}
AllHooks == hooks.seeked \cup hooks.error \cup hooks.timer

\* the progress value as a fraction of the run (the code holds a percentage)
ProgressFraction == Ratio(processingProgress.num, processingProgress.den * 100)

\* the messages of the errors state that name one failed capture
CaptureErrors == SelectSeq(errors, LAMBDA e : e.kind = "capture")

\* the members of S among 1..n, in increasing order
RECURSIVE Kept(_, _)
Kept(n, S) ==
    IF n = 0 THEN <<>>
    ELSE IF n \in S THEN Append(Kept(n - 1, S), n) ELSE Kept(n - 1, S)

\* C1: capture jobs run strictly one after the other: at most one job is in
\* Seeking or Rendering, and a job has left Pending only if the job before
\* it has reached Succeeded or Failed.
C1_Sequential ==
    /\ Cardinality(JobsIn({"Seeking", "Rendering"})) <= 1
    /\ \A i \in Jobs :
         (i > 1 /\ jobState[i] # "Pending") => jobState[i - 1] \in Final

\* C1 witness: the second job is seeking after the first one has failed
C1_Witness ==
    /\ 2 \in Jobs
    /\ jobState[2] = "Seeking"
    /\ jobState[1] = "Failed"

\* C2: the video is never assigned a new position while a seek requested
\* before has neither completed nor errored.
C2_SingleSeek == seekOverlapped = {}

\* C3: capture is attempted for the entries in index order, each once, and a
\* run that gets to its loop attempts every entry, whatever the outcomes.
C3_InOrder ==
    /\ attempted = [k \in 1..Len(attempted) |-> k]
    /\ Len(attempted) <= Len(runEntries)
    /\ \A i \in Jobs : (jobState[i] # "Pending") <=> (i <= Len(attempted))
    /\ runEnd = "completed" => Len(attempted) = Len(runEntries)

\* C3 witness: a run of two entries has ended; its first job failed and its
\* second job was attempted all the same, and succeeded
C3_Witness ==
    /\ runEnd = "completed"
    /\ attempted = <<1, 2>>
    /\ jobState[1] = "Failed"
    /\ jobState[2] = "Succeeded"

\* C4: when a run of N entries in which exactly one job failed has ended,
\* the result list holds N-1 results, the error list holds exactly one
\* capture error, and progress is complete.
C4_OneFailure ==
    (/\ runEnd = "completed"
     /\ Cardinality(JobsIn({"Failed"})) = 1
     /\ Cardinality(JobsIn({"Succeeded"})) = Len(runEntries) - 1)
    => /\ Len(screenshots) = Len(runEntries) - 1
       /\ Len(CaptureErrors) = 1
       /\ RatioEq(ProgressFraction, Ratio(1, 1))

\* C5: when a run has ended, the published results are those of the entries
\* whose job did not fail, in entry order, and the error list holds one
\* capture error per failed job, naming that entry's timestamp.
C5_PartialResults ==
    runEnd = "completed" =>
      LET good   == Kept(Len(runEntries), JobsIn({"Succeeded"}))
          failed == Kept(Len(runEntries), JobsIn({"Failed"}))
      IN /\ screenshots = [k \in 1..Len(good) |-> Shot(runEntries, good[k])]
         /\ CaptureErrors =
              [k \in 1..Len(failed) |->
                 JobError(runEntries[failed[k]].timestamp)]

\* C6: a capture request whose time exceeds the video's duration fails at
\* once with the out-of-range error: the position is not assigned, and no
\* listener and no timer is registered for it.
C6_OutOfRange ==
    attempted # <<>> =>
      LET i == Last(attempted)
      IN (lastDur # NaN /\ runEntries[i].timeInSeconds > lastDur) =>
           /\ jobState[i] = "Failed"
           /\ lastErr = "OutOfRange"
           /\ i \notin seekRequested
           /\ i \notin AllHooks

\* C6 witness: a job was rejected as out of range and the run goes on
C6_Witness ==
    /\ attempted # <<>>
    /\ lastErr = "OutOfRange"
    /\ lastDur # NaN
    /\ runEntries[Last(attempted)].timeInSeconds > lastDur
    /\ pc = "delay"

\* an event of the seek of job i reaches one of its three handlers
SeekEvent(i) == SeekedHeard(i) \/ SeekTimerFires(i) \/ VideoErrorInJob(i)

\* C7: a job in Seeking is resolved by the first of seek-completed (to
\* Rendering), the seek timer (to Failed, seek timeout) and a video error
\* (to Failed, resource error); a later one of these events for a job that
\* has left Seeking changes nothing of the job or of the run.
C7_SingleOutcome ==
    [][\A i \in Jobs :
         /\ (jobState[i] = "Seeking" /\ SeekedHeard(i))
               => jobState'[i] = "Rendering"
         /\ (jobState[i] = "Seeking" /\ SeekTimerFires(i))
               => (jobState'[i] = "Failed" /\ lastErr' = "SeekTimeout")
         /\ (jobState[i] = "Seeking" /\ VideoErrorInJob(i))
               => (jobState'[i] = "Failed" /\ lastErr' = "VideoError")
         /\ (jobState[i] \in {"Rendering", "Succeeded", "Failed"}
               /\ SeekEvent(i))
               => UNCHANGED <<jobState, lastErr, reactVars, pc, loopVars>>
      ]_vars

\* C7 witness: the seek of a job completes after its timer has failed the
\* job; the seeked event is queued for a job that is already resolved
C7_Witness ==
    /\ attempted # <<>>
    /\ lastErr = "SeekTimeout"
    /\ jobState[Last(attempted)] = "Failed"
    /\ seekedPending = [run |-> runId, job |-> Last(attempted)]

C9_ReadyFirst ==
    /\ attempted # <<>> => (readyAt.duration # NaN /\ readyAt.videoWidth > 0)
    /\ runEnd = "aborted" =>
         /\ attempted = <<>>
         /\ screenshots = <<>>
         /\ Len(errors) = 1
         /\ errors[1].kind \in {"Video loading timeout", "Failed to load video"}

\* C10: progress is the fraction of attempts completed: 0 when the run
\* starts, completed/total after every attempt, within [0,1], never
\* decreasing during a run, and 1 after the last attempt.
C10_Progress ==
    /\ [](/\ RatioLeq(Ratio(0, 1), ProgressFraction)
          /\ RatioLeq(ProgressFraction, Ratio(1, 1))
          /\ isProcessing =>
               RatioEq(ProgressFraction,
                       Ratio(Cardinality(JobsIn(Final)), Len(runEntries)))
          /\ runEnd = "completed" => RatioEq(ProgressFraction, Ratio(1, 1)))
    /\ [][(isProcessing /\ runId' = runId)
            => RatioLeq(processingProgress, processingProgress')]_vars

\* C10 witness: a run of two entries has ended with a failed job and
\* progress is complete
C10_Witness ==
    /\ runEnd = "completed"
    /\ Len(runEntries) = 2
    /\ Cardinality(JobsIn({"Failed"})) >= 1
    /\ RatioEq(ProgressFraction, Ratio(1, 1))

\* C11: when a run in which every job failed has ended, the aggregate 'no
\* screenshots captured' message is in the error list together with the
\* capture error of every entry, in entry order.
C11_AllFailed ==
    (runEnd = "completed" /\ JobsIn({"Failed"}) = Jobs) =>
       /\ \E k \in DOMAIN errors : errors[k] = NoneCaptured
       /\ CaptureErrors =
            [k \in 1..Len(runEntries) |-> JobError(runEntries[k].timestamp)]

\* the capture errors of the failed jobs of the run, in entry order
FailedJobErrors ==
    LET failed == Kept(Len(runEntries), JobsIn({"Failed"}))
    IN [k \in 1..Len(failed) |-> JobError(runEntries[failed[k]].timestamp)]

Moves(i) ==
    /\ runId' = runId
    /\ i \in DOMAIN jobState'
    /\ jobState'[i] # jobState[i]

\* C13 (as stated): a job's state changes only along Pending -> Seeking,
\* Seeking -> Rendering, Rendering -> Succeeded or Seeking -> Failed.
C13_ListedOnly ==
    [][\A i \in Jobs :
         Moves(i) =>
           <<jobState[i], jobState'[i]>> \in
              {<<"Pending", "Seeking">>, <<"Seeking", "Rendering">>,
               <<"Rendering", "Succeeded">>, <<"Seeking", "Failed">>}]_vars

\* C13 (amended): a job's state changes only along Pending -> Seeking,
\* Pending -> Failed (request out of range, or the assignment of the position
\* throws), Seeking -> Rendering, Seeking -> Failed (seek timeout or video
\* error), Rendering -> Succeeded, or Rendering -> Failed (the encoding
\* delivers no image); Succeeded and Failed are terminal.
C13_Transitions ==
    [][\A i \in Jobs :
         Moves(i) =>
           \/ /\ <<jobState[i], jobState'[i]>> \in
                   {<<"Pending", "Seeking">>, <<"Seeking", "Rendering">>,
                    <<"Rendering", "Succeeded">>, <<"Seeking", "Failed">>}
              /\ (jobState'[i] = "Failed"
                    => lastErr' \in {"SeekTimeout", "VideoError"})
           \/ /\ jobState[i] = "Pending"
              /\ jobState'[i] = "Failed"
              /\ lastErr' \in {"OutOfRange", "SeekException"}
           \/ /\ jobState[i] = "Rendering"
              /\ jobState'[i] = "Failed"
              /\ lastErr' = "Encode"
      ]_vars

\* C13 witness: a job that was rendering has failed for want of an image
C13_Witness ==
    /\ attempted # <<>>
    /\ jobState[Last(attempted)] = "Failed"
    /\ lastErr = "Encode"
    /\ Last(attempted) \in isResolved

\* C16: two results of one run never have the same filename, also when
\* their entries have equal times and when an index passes 999.
C16_FilenamesDiffer ==
    naming.phase = "named" => naming.ra.filename # naming.rb.filename

\* C16 witness: two results with equal entry times, one of them with an
\* index beyond 999, have been named
C16_Witness ==
    /\ naming.phase = "named"
    /\ naming.a.ms = naming.b.ms
    /\ naming.a.loss = naming.b.loss
    /\ naming.a.index = 0
    /\ naming.b.index = 1000

\* C17: two results of one run never have the same id, whatever the clock
\* values read.
C17_IdsDiffer ==
    naming.phase = "named" => naming.ra.id # naming.rb.id

\* C17 witness: two results named at the same clock value
C17_Witness ==
    /\ naming.phase = "named"
    /\ naming.a.now = naming.b.now
    /\ naming.ra.id # naming.rb.id

\* the object URLs the component still holds: of the video, of the results
\* shown, of the results a run has collected
HeldUrls ==
    (IF videoUrl # 0 THEN {VideoObjectUrl(videoUrl)} ELSE {})
    \cup {screenshots[k].url : k \in DOMAIN screenshots}
    \cup {newScreenshots[k].url : k \in DOMAIN newScreenshots}

\* C14: every object URL is released exactly once: revokeObjectURL is never
\* called for a URL released before, and a URL the component no longer holds
\* (of a result list that was replaced, of a video that was replaced) is
\* not left valid.
C14_ReleasedOnce ==
    /\ objectUrls.again = {}
    /\ objectUrls.valid \subseteq HeldUrls

\* C15: in every state the selection holds only ids of results on display,
\* and from the start of a run on, while it is processing, it is empty
C15_SelectionWithin ==
    /\ selectedScreenshots \subseteq ShownIds
    /\ isProcessing => selectedScreenshots = {}

\* a second run has started after some results of the first had been
\* selected and exported as a selection, and the selection is empty
C15_Witness ==
    /\ runId = 2
    /\ isProcessing
    /\ selectedScreenshots = {}
    /\ exports[1].kind = "selected"
    /\ exports[1].sel # {}

\* C18: with the JSZip flag or the file-saver flag false, an export of all N
\* results builds no archive and sets N timers, the timer of the i-th result
\* (i from 0) due i*500 ms after the click; the single downloads are called
\* one per result, in the order of the results, and never more than N
C18_FallbackAll ==
    \A e \in DOMAIN exports :
        LET x == exports[e]
            n == Len(x.shown)
        IN (/\ x.kind = "all"
            /\ ~libraryStatus.jszip \/ ~libraryStatus.filesaver)
           => /\ x.pc = "fallback"
              /\ x.added = 0
              /\ x.zip = {}
              /\ Len(x.timers) = n
              /\ \A i \in 1..n :
                    x.timers[i] = [delay |-> (i - 1) * 500,
                                   shot |-> x.shown[i]]
              /\ Len(x.outcomes) = Cardinality(x.fired)
              /\ Len(x.outcomes) <= n
              /\ \A i \in 1..Len(x.outcomes) :
                    x.outcomes[i].file = FilenameOf(x.shown[i])

\* JSZip is there and file-saver is not; all of two results were exported and
\* both single downloads have been called
C18_Witness ==
    /\ libraryStatus = [jszip |-> TRUE, filesaver |-> FALSE]
    /\ \E e \in DOMAIN exports :
         /\ exports[e].kind = "all"
         /\ Len(exports[e].shown) = 2
         /\ Len(exports[e].outcomes) = 2

\* C19: with both flags true, an export whose archive construction failed
\* delivers no archive, has set one timer per result of its scope, and every
\* single download it has called has delivered its file
C19_FallbackDelivers ==
    \A e \in DOMAIN exports :
        LET x == exports[e]
        IN (/\ x.pc = "fallback"
            /\ libraryStatus.jszip /\ libraryStatus.filesaver)
           => /\ Len(x.timers) = Len(x.scope)
              /\ \A i \in DOMAIN x.timers : x.timers[i].shot = x.scope[i]
              /\ \A i \in DOMAIN x.outcomes : x.outcomes[i].delivered

\* the filenames of the results of a list
Filenames(shots) == {FilenameOf(shots[k]) : k \in DOMAIN shots}

\* the results of a list whose id is in a set
Chosen(shots, ids) == {k \in DOMAIN shots : IdOf(shots[k]) \in ids}

\* C20: an export that has saved its archive: of all results, the archive
\* has as many entries as there were results on display and their names are
\* the results' filenames; of the selection, it has one entry for each
\* result whose id was selected, named by that result's filename, and no other
C20_ArchiveEntries ==
    \A e \in DOMAIN exports :
        LET x == exports[e]
        IN x.pc = "saved"
           => /\ x.kind = "all"
                 => /\ Cardinality(x.zip) = Len(x.shown)
                    /\ x.zip = Filenames(x.shown)
              /\ x.kind = "selected"
                 => /\ Cardinality(x.zip) = Cardinality(Chosen(x.shown, x.sel))
                    /\ x.zip = {FilenameOf(x.shown[k]) :
                                   k \in Chosen(x.shown, x.sel)}

\* an archive of all of two results has been saved
C20_Witness ==
    \E e \in DOMAIN exports :
        /\ exports[e].pc = "saved"
        /\ exports[e].kind = "all"
        /\ Len(exports[e].shown) = 2
        /\ Cardinality(exports[e].zip) = 2

\* the blocks of the file parsed that have a timestamp line of one of the
\* forms and, in the lines after it, the word question in any case
TimedQuestions(forms) ==
    SelectSeq(parsing.blocks,
              LAMBDA b : b.form \in forms /\ b.text # AnswerText)

\* C21: the entries parsed are, in the order of the file, one for each block
\* that has a timestamp line (HH:MM:SS and comma or dot) and the word
\* question, in any case, in its text: each has isQuestion true, the
\* timestamp line and the joined text of its block; blocks with equal
\* timestamps give an entry each
C21_DocumentOrder ==
    parsing.phase = "parsed"
    => LET asked == TimedQuestions({"comma", "dot"})
       IN /\ Len(parsing.entries) = Len(asked)
          /\ \A k \in DOMAIN parsing.entries :
                /\ parsing.entries[k].isQuestion
                /\ parsing.entries[k].timestamp
                      = StampLine(asked[k].form, asked[k].start)[1]
                /\ parsing.entries[k].text = join(asked[k].text, <<" ">>)

\* C22: every entry parsed has the timestamp line of a block of the file
\* that has one (HH:MM:SS and comma or dot), a file with no such block that
\* asks a question parses to no entry, and parsing sets no error
C22_UntimedSkipped ==
    parsing.phase = "parsed"
    => /\ \A k \in DOMAIN parsing.entries :
             \E j \in DOMAIN parsing.blocks :
                /\ parsing.blocks[j].form \in {"comma", "dot"}
                /\ parsing.entries[k].timestamp
                      = StampLine(parsing.blocks[j].form,
                                  parsing.blocks[j].start)[1]
       /\ TimedQuestions({"comma", "dot"}) = <<>> => parsing.entries = <<>>
       /\ errors = <<>>

C24_CompactAccepted ==
    parsing.phase = "parsed"
    => LET asked == TimedQuestions({"comma", "dot", "compact"})
       IN /\ Len(parsing.entries) = Len(asked)
          /\ \A k \in DOMAIN parsing.entries :
                (k \in DOMAIN asked /\ asked[k].form = "compact")
                => parsing.entries[k].timeInSeconds
                      = asked[k].start.m * 60000 + asked[k].start.s * 1000
                        + asked[k].start.ms

\* C25: a click on Select All / Deselect All empties the selection if it has
\* as many ids as there are results on display, and otherwise makes it the
\* set of the ids of all results on display; a click on one result flips
\* that result's id in the selection and leaves every other id as it was
C25_Toggles ==
    [][/\ toggleSelectAll
          => selectedScreenshots'
                = IF Cardinality(selectedScreenshots) = Len(screenshots)
                  THEN {} ELSE ShownIds
       /\ \A id \in ShownIds :
             toggleScreenshotSelection(id)
             => /\ id \in selectedScreenshots' <=> id \notin selectedScreenshots
                /\ selectedScreenshots' \ {id} = selectedScreenshots \ {id}
      ]_vars

\* two results on display, one of them selected
C25_Witness ==
    /\ Len(screenshots) = 2
    /\ Cardinality(selectedScreenshots) = 1

\* C26: the 'seeked' event that moves job i to Rendering is the event of the
\* seek that job i of the current run requested
C26_OwnSeek ==
    [][\A i \in DOMAIN jobState :
          (/\ SeekedHeard(i)
           /\ jobState[i] = "Seeking"
           /\ jobState'[i] = "Rendering")
          => seekedPending = [run |-> runId, job |-> i]
      ]_vars

\* C27: the object URL of every result on display is valid (created and not
\* revoked)
C27_ShownValid ==
    \A k \in DOMAIN screenshots : screenshots[k].url \in objectUrls.valid

\* C28: with the video and the subtitle file chosen once each, whatever runs
\* are started, every fetch an export has made found its image: the fetch
\* of the archive loop that is under way, the fetches of the archive loops
\* that have ended, and the fetch of every single download called
C28_FetchesFound ==
    uploads = 2
    => \A e \in DOMAIN exports :
          LET x == exports[e]
          IN /\ x.pc = "fetch" => x.got
             /\ x.thrown = "other" => x.added = Len(x.scope)
             /\ \A i \in DOMAIN x.outcomes : x.outcomes[i].delivered

\* C29: every started run ends (the processing flag, once true, becomes false
\* again), and every capture job that was started, seeking or rendering,
\* reaches Succeeded or Failed
C29_Terminates ==
    /\ isProcessing ~> ~isProcessing
    /\ \A i \in 1..MaxEntries :
         (i \in DOMAIN jobState /\ jobState[i] \in {"Seeking", "Rendering"})
           ~> (i \in DOMAIN jobState /\ jobState[i] \in {"Succeeded", "Failed"})

\* C29 witness: a run of two jobs has ended, one job failed on its seek
\* timer, the other succeeded after handleSeeked cleared its timer
C29_Witness ==
    /\ ~isProcessing
    /\ runEnd = "completed"
    /\ Len(runEntries) = 2
    /\ \E i, k \in DOMAIN jobState :
         /\ jobState[i] = "Succeeded"
         /\ jobState[k] = "Failed"
    /\ lastErr = "SeekTimeout"
    /\ hooks.timer = {}

\* C30: a run starts only while the processing flag is false and nothing of
\* the run before is under way (the orchestrator idle, no job seeking or
\* rendering, no job listener or seek timer registered); and every seek the
\* video is given is given by the one run in progress
C30_OneRun ==
    [][/\ runId' # runId =>
            /\ ~isProcessing
            /\ pc = "idle"
            /\ hooks = [seeked |-> {}, error |-> {}, timer |-> {}]
            /\ \A i \in DOMAIN jobState :
                  jobState[i] \notin {"Seeking", "Rendering"}
       /\ (vidSeek' # vidSeek /\ vidSeek' # NoSeek) =>
            /\ isProcessing'
            /\ vidSeek'.run = runId'
            /\ vidSeek'.job = idx'
            /\ pc' = "await"]_vars

\* C30 witness: a second run is started after the first has ended, and its
\* first job has the video seeking
C30_Witness ==
    /\ runId = 2
    /\ isProcessing
    /\ pc = "await"
    /\ vidSeek = [run |-> 2, job |-> 1]
    /\ jobState[1] = "Seeking"
    /\ screenshots = <<>>

C32_ExportFrame ==
    /\ [](\A e \in DOMAIN exports :
            LET x == exports[e]
            IN /\ x.pc # "idle" => Len(x.scope) > 0
               /\ x.kind = "selected" => x.sel # {}
               /\ \A i \in DOMAIN x.outcomes :
                     \E k \in DOMAIN x.scope :
                        x.outcomes[i].file = FilenameOf(x.scope[k]))
    /\ [][/\ (exports' # exports) =>
                UNCHANGED <<screenshots, selectedScreenshots,
                            processingProgress>>
          /\ (/\ errors' # errors
              /\ errors' =
                   <<Fatal("Please select at least one screenshot to download")>>)
               => (/\ selectedScreenshots = {}
                   /\ UNCHANGED <<exports, screenshots, selectedScreenshots,
                                   processingProgress, objectUrls>>)
          /\ (/\ errors' # errors
              /\ errors' = <<Fatal("No screenshots available to download")>>)
               => (/\ screenshots = <<>>
                   /\ UNCHANGED <<exports, screenshots, selectedScreenshots,
                                   processingProgress, objectUrls>>)]_vars

\* C32 witness: with results on display and none selected,
\* downloadSelectedScreenshots was called: its message is shown, no export
\* was started
C32_Witness ==
    /\ Len(screenshots) > 0
    /\ selectedScreenshots = {}
    /\ errors = <<Fatal("Please select at least one screenshot to download")>>
    /\ \A e \in DOMAIN exports : exports[e].pc = "idle"

\* C33: in the quiz player the pending auto-pause flag is set only while the
\* preference is on (shouldPauseAfterQuestion implies pauseAtQuestionEnd), no
\* auto-pause was ever issued with the preference off, and since the flag
\* was last set at most one pause was issued
C33_PauseOnlyWhenOn ==
    player.phase = "on" =>
        /\ player.shouldPauseAfterQuestion => player.pauseAtQuestionEnd
        /\ ~player.pausedWhileOff
        /\ player.autoPauses <= 1

\* C33 witness: the pause of a question was issued, and the preference was
\* then turned off with the video past the question
C33_Witness ==
    /\ player.phase = "on"
    /\ player.autoPauses = 1
    /\ player.paused
    /\ ~player.shouldPauseAfterQuestion
    /\ ~player.pauseAtQuestionEnd
    /\ player.currentQuestionEndTime # <<>>
    /\ player.currentTime >= player.currentQuestionEndTime[1] + PauseLag

====
